---- MODULE Spec2Model ----
(***************************************************************************)
(* Model of src/sync_resize.py: a one-shot mirror of an image tree.        *)
(* sync_images scans the source and the destination tree, keeps the paths  *)
(* that match PATTERNS, plans COPY/DELETE actions as a set difference and  *)
(* executes them one after the other.                                      *)
(*                                                                         *)
(* A relative path is the pair <<dir, name>>, a name the pair              *)
(* <<stem, extension>>; directory 0 is the root itself, the other          *)
(* directories are its subdirectories.  Path(root) / rel is <<root, rel>>. *)
(* A file is represented by a label for its bytes.                         *)
(***************************************************************************)
EXTENDS Integers, Sequences, FiniteSets, TLC

\* ---------------------------------------------------------------- bounds
NumDirs == 2          \* directories per tree (the root and its subdirectories)
MaxFiles == 3         \* files in the two trees before the first run
MaxLen  == 3          \* length of the path sequences handed to determine_actions
MaxDim  == 5          \* width and height of images and of the size target, in pixels

\* ------------------------------------------------------------- constants
PATTERNS == {"gif", "jpg", "jpeg", "png", "tif", "jfif"}   \* "*.<ext>"
DefaultSize == <<800, 800>>
None == <<>>             \* Python None, where the other values are tuples
NoFile == "NoFile"

source == "source"
dest == "dest"
Roots == {source, dest}
Dirs == 0 .. (NumDirs - 1)
ImageName == <<"a", "jpg">>
NotesName == <<"notes", "txt">>
RelPaths == {<<d, ImageName>> : d \in Dirs} \cup {<<0, NotesName>>}
AbsPaths == Roots \X RelPaths

\* bytes of a file: a decodable image, bytes that are no image, a text file,
\* a file that was in destination before the first run, the output of
\* resize_image, a file cut short by a failed copyfile or a failed save
SourceBytes(p) == IF p[2] = ImageName THEN {"img", "junk"} ELSE {"txt"}
Bytes == {"img", "junk", "txt", "old", "norm", "partial", "broken"}

\* ----------------------------------------------------------------- state
VARIABLES
    fs,            \* the file system: AbsPaths -> Bytes \cup {NoFile}
    size,          \* the size argument of sync_images: None or <<W, H>>
    pc,            \* "start", "loop" (inside the for loop), "done" (returned)
    source_files,  \* determine_actions: set(source_files)
    dest_files,    \* determine_actions: set(dest_files)
    actions,       \* the actions the generator has still to yield
    copied,        \* sync_images: copied
    deleted,       \* sync_images: deleted
    report,        \* the "Finished. Copied: c, deleted: d." record, or None
    raised,        \* an exception reached logger.catch of sync_images
    again,         \* this is the second of two successive invocations
    \* history of the current run
    fs0,           \* the file system when the run started
    scanErr,       \* <<root, dir>> whose scandir raised OSError
    plan,          \* the whole sequence of actions of the run
    attempted,     \* number of actions the loop has started on
    okCopy,        \* destination paths whose makedirs and copyfile succeeded
    okDelete,      \* destination paths whose os.remove succeeded
    resized,       \* destination paths resize_image was called on
    prevClean,     \* the previous run reported and met no scan error
    \* inputs and output of determine_actions taken alone
    inSrc, inDst, outPlan, outDone,
    \* arguments and result of resize_image taken alone
    imArgs,        \* the decoded file, its suffix, the size target, square
    imResult,      \* size and mode of the saved image, the save branch taken
    imDone

vars == <<fs, size, pc, source_files, dest_files, actions, copied, deleted,
          report, raised, again, fs0, scanErr, plan, attempted, okCopy,
          okDelete, resized, prevClean, inSrc, inDst, outPlan, outDone, imArgs, imResult, imDone>>

\* ------------------------------------------------------------- helpers
Range(s) == {s[i] : i \in DOMAIN s}
\* every order in which the elements of a set can be enumerated
Perms(S) == {f \in [1 .. Cardinality(S) -> S] :
                \A i, j \in 1 .. Cardinality(S) : i # j => f[i] # f[j]}
Join(root, rel) == <<root, rel>>
Exists(tree, root, rel) == tree[Join(root, rel)] # NoFile

\* fnmatch.fnmatch(path, "*.<ext>"): the whole relative path ends in ".<ext>"
Fnmatch(path, pat) == path[2][2] = pat

\* filter_tree without the fnmatch test
FilterTreeAll(paths, patterns) == paths

FilterTree(paths, patterns) ==
    SelectSeq(paths, LAMBDA path : \E p \in patterns : Fnmatch(path, p))

\* scan_tree(entry.path, path_rel_to) of a subdirectory d: nothing when
\* scandir raises OSError, else the files of d relative to the root
ScanDir(tree, root, d, bad) ==
    IF <<root, d>> \in bad THEN {}
    ELSE {rel \in RelPaths : rel[1] = d /\ Exists(tree, root, rel)}

\* scan_tree giving up the whole scan at the first scandir that raises
ScanTreeGivesUp(tree, root, bad) ==
    IF \E e \in bad : e[1] = root THEN {}
    ELSE UNION {ScanDir(tree, root, d, bad) : d \in Dirs}

\* scan_tree(root): the paths it yields (scandir fixes no order)
ScanTree(tree, root, bad) ==
    IF <<root, 0>> \in bad THEN {}
    ELSE UNION {ScanDir(tree, root, d, bad) : d \in Dirs}

\* the subdirectories scandir(root) lists: those that hold a file
SubDirs(tree, root) ==
    {rel[1] : rel \in {r \in RelPaths : Exists(tree, root, r)}} \ {0}

\* the scandir calls that can raise OSError during scan_tree(root): the one
\* on the root, or else any of those on its subdirectories
ScanErrors(tree, root) ==
    {{<<root, 0>>}} \cup SUBSET {<<root, d>> : d \in SubDirs(tree, root)}

\* the order in which scandir lists the entries; determine_actions drops it
Listing(S) == CHOOSE f \in Perms(S) : TRUE

\* determine_actions yielding the two paths of a COPY in the wrong order
CopyActionSwapped(source_folder, dest_folder, rel_path) ==
    [kind |-> "COPY",
     paths |-> <<Join(dest_folder, rel_path), Join(source_folder, rel_path)>>]

\* determine_actions joining only the file name, not the relative path
CopyActionFlat(source_folder, dest_folder, rel_path) ==
    [kind |-> "COPY",
     paths |-> <<Join(source_folder, rel_path), Join(dest_folder, <<0, rel_path[2]>>)>>]

CopyAction(source_folder, dest_folder, rel_path) ==
    [kind |-> "COPY",
     paths |-> <<Join(source_folder, rel_path), Join(dest_folder, rel_path)>>]
DeleteAction(dest_folder, rel_path) ==
    [kind |-> "DELETE", paths |-> <<Join(dest_folder, rel_path)>>]

\* determine_actions without its second loop
DetermineActionsNoDelete(src_seq, dst_seq, source_folder, dest_folder) ==
    LET sf == Range(src_seq)
        df == Range(dst_seq)
        copies == {CopyAction(source_folder, dest_folder, rel) : rel \in sf \ df}
    IN  Perms(copies)

\* determine_actions without its first loop
DetermineActionsNoCopy(src_seq, dst_seq, source_folder, dest_folder) ==
    LET sf == Range(src_seq)
        df == Range(dst_seq)
        deletes == {DeleteAction(dest_folder, rel) : rel \in df \ sf}
    IN  Perms(deletes)

\* determine_actions looping over its arguments without the set() calls
DetermineActionsNoSet(src_seq, dst_seq, source_folder, dest_folder) ==
    LET sf == Range(src_seq)
        df == Range(dst_seq)
        c == [i \in DOMAIN src_seq |-> CopyAction(source_folder, dest_folder, src_seq[i])]
        d == [i \in DOMAIN dst_seq |-> DeleteAction(dest_folder, dst_seq[i])]
    IN  {SelectSeq(c, LAMBDA a : a.paths[1][2] \notin df) \o
         SelectSeq(d, LAMBDA a : a.paths[1][2] \notin sf)}

\* determine_actions without the "not in dest_files" test of its first loop
DetermineActionsCopiesAll(src_seq, dst_seq, source_folder, dest_folder) ==
    LET sf == Range(src_seq)
        df == Range(dst_seq)
        copies == {CopyAction(source_folder, dest_folder, rel) : rel \in sf}
        deletes == {DeleteAction(dest_folder, rel) : rel \in df \ sf}
    IN  {c \o d : c \in Perms(copies), d \in Perms(deletes)}

\* determine_actions with its two loops in the other order
DetermineActionsDeleteFirst(src_seq, dst_seq, source_folder, dest_folder) ==
    LET sf == Range(src_seq)
        df == Range(dst_seq)
        copies == {CopyAction(source_folder, dest_folder, rel) : rel \in sf \ df}
        deletes == {DeleteAction(dest_folder, rel) : rel \in df \ sf}
    IN  {d \o c : c \in Perms(copies), d \in Perms(deletes)}

\* determine_actions: the sequences of actions the generator can yield
\* (a Python set is iterated in an order the program does not fix)
DetermineActions(src_seq, dst_seq, source_folder, dest_folder) ==
    LET sf == Range(src_seq)
        df == Range(dst_seq)
        copies == {CopyAction(source_folder, dest_folder, rel) : rel \in sf \ df}
        deletes == {DeleteAction(dest_folder, rel) : rel \in df \ sf}
    IN  {c \o d : c \in Perms(copies), d \in Perms(deletes)}

Eligible(rel) == \E p \in PATTERNS : Fnmatch(rel, p)
EligibleIn(tree, root) == {rel \in RelPaths : Eligible(rel) /\ Exists(tree, root, rel)}

\* ---------------------------------------------------------- resize_image
Abs(x) == IF x < 0 THEN 0 - x ELSE x
Max(a, b) == IF a >= b THEN a ELSE b
Floor(n, d) == n \div d
Ceil(n, d) == IF n % d = 0 THEN n \div d ELSE (n \div d) + 1
\* Python round(n / d): to the nearest integer, a half to the even one
Round(n, d) ==
    LET q == n \div d
        r == n % d
    IN  IF 2 * r < d THEN q
        ELSE IF 2 * r > d THEN q + 1
        ELSE IF q % 2 = 0 THEN q ELSE q + 1

\* img.thumbnail(size) fitting the height where the width is the tight side
ThumbnailWrongSide(w, h, W, H) ==
    IF W >= w /\ H >= h THEN <<w, h>>
    ELSE IF W * h >= w * H
         THEN <<W, Max(Round(W * h, w), 1)>>
         ELSE <<Max(Round(H * w, h), 1), H>>

\* img.thumbnail(size) on an image of w x h: the size it leaves.
\* round_aspect takes floor or ceil of the scaled side, the one whose aspect
\* ratio is nearer to w / h (floor on a tie), and at least 1.
Thumbnail(w, h, W, H) ==
    IF W >= w /\ H >= h THEN <<w, h>>
    ELSE IF W * h >= w * H
         THEN LET lo == Floor(H * w, h)
                  hi == Ceil(H * w, h)
                  x == IF Abs(w * H - lo * h) <= Abs(w * H - hi * h) THEN lo ELSE hi
              IN  <<Max(x, 1), H>>
         ELSE LET lo == Floor(W * h, w)
                  hi == Ceil(W * h, w)
                  y == IF lo = 0 \/ Abs(w * lo - W * h) * hi <= Abs(w * hi - W * h) * lo
                       THEN lo ELSE hi
              IN  <<W, Max(y, 1)>>

\* ImageOps.contain(image, size): the size the image is resized to
Contain(w, h, W, H) ==
    IF w * H = W * h THEN <<W, H>>
    ELSE IF w * H > W * h
         THEN <<W, Round(h * W, w)>>
         ELSE <<Round(w * H, h), H>>

\* ImageOps.pad(img, size, color='white'): the contained image pasted on a
\* new canvas of the requested size
Pad(w, h, W, H) ==
    LET resized_size == Contain(w, h, W, H)
    IN  IF resized_size = <<W, H>> THEN resized_size ELSE <<W, H>>

\* path.suffix.lower()
Suffixes == {".jpg", ".jpeg", ".JPG", ".png", ".gif", ".tif"}
Lower(suffix) == IF suffix = ".JPG" THEN ".jpg" ELSE suffix

\* what Image.open can return: <<img.format, img.mode>>
Originals == {<<"PNG", "RGBA">>, <<"PNG", "RGB">>, <<"PNG", "LA">>,
              <<"GIF", "P">>, <<"JPEG", "RGB">>, <<"TIFF", "RGBA">>}

\* the if / elif / else before the save, without the test of img.mode
SaveBranchAnyMode(original_format, mode, suffix) ==
    IF original_format = "PNG" /\ Lower(suffix) \in {".jpg", ".jpeg"}
    THEN "alpha-flatten"
    ELSE IF original_format = "GIF" /\ Lower(suffix) \in {".jpg", ".jpeg"}
         THEN "animation-flatten"
         ELSE "passthrough"

\* the if / elif / else before the save (lines 58-67); mode is img.mode there
SaveBranch(original_format, mode, suffix) ==
    IF original_format = "PNG" /\ mode = "RGBA" /\ Lower(suffix) \in {".jpg", ".jpeg"}
    THEN "alpha-flatten"
    ELSE IF original_format = "GIF" /\ Lower(suffix) \in {".jpg", ".jpeg"}
         THEN "animation-flatten"
         ELSE "passthrough"

\* resize_image from line 50 on, for a file Image.open has decoded
Normalize(a) ==
    LET thumb == Thumbnail(a.w, a.h, a.size[1], a.size[2])
        mode == IF a.square THEN "RGB" ELSE a.mode
        dims == IF a.square THEN Pad(thumb[1], thumb[2], a.size[1], a.size[2])
                ELSE thumb
    IN  [w |-> dims[1], h |-> dims[2], mode |-> mode,
         branch |-> SaveBranch(a.format, mode, a.suffix)]

NoArgs == [format |-> "", mode |-> "", w |-> 0, h |-> 0, suffix |-> "",
           size |-> <<0, 0>>, square |-> FALSE]
NoResult == [w |-> 0, h |-> 0, mode |-> "", branch |-> ""]
NoImage == imArgs = NoArgs /\ imResult = NoResult /\ imDone = FALSE

\* ------------------------------------------------------------------ Init
\* trees the program can be started on: any files under source, any files
\* left under destination by earlier use
AllTrees ==
    {[ap \in AbsPaths |-> IF ap[1] = source THEN s[ap[2]] ELSE d[ap[2]]] :
        s \in {g \in [RelPaths -> {NoFile, "img", "junk", "txt"}] :
                 \A rel \in RelPaths : g[rel] \in SourceBytes(rel) \cup {NoFile}},
        d \in [RelPaths -> {NoFile, "old"}]}
InitTrees ==
    {f \in AllTrees : Cardinality({ap \in AbsPaths : f[ap] # NoFile}) <= MaxFiles}

Idle ==
    /\ pc = "start"
    /\ source_files = {} /\ dest_files = {} /\ actions = <<>>
    /\ copied = 0 /\ deleted = 0
    /\ report = None /\ raised = FALSE /\ again = FALSE
    /\ fs0 = fs /\ scanErr = {} /\ plan = <<>> /\ attempted = 0
    /\ okCopy = {} /\ okDelete = {} /\ resized = {} /\ prevClean = FALSE

Init ==
    /\ fs \in InitTrees
    /\ size \in {None, DefaultSize}
    /\ Idle
    /\ inSrc = <<>> /\ inDst = <<>> /\ outPlan = <<>> /\ outDone = FALSE
    /\ NoImage

\* --------------------------------------------------------------- actions
\* sync_images is called; the first next() on the actions generator runs
\* both scans, both filters and the two set() calls of determine_actions
Plan ==
    /\ pc = "start"
    /\ \E sbad \in ScanErrors(fs, source), dbad \in ScanErrors(fs, dest) :
         LET sf == FilterTree(Listing(ScanTree(fs, source, sbad)), PATTERNS)
             df == FilterTree(Listing(ScanTree(fs, dest, dbad)), PATTERNS)
         IN  \E acts \in DetermineActions(sf, df, source, dest) :
               /\ source_files' = Range(sf)
               /\ dest_files' = Range(df)
               /\ actions' = acts
               /\ plan' = acts
               /\ scanErr' = sbad \cup dbad
    /\ copied' = 0 /\ deleted' = 0
    /\ pc' = "loop"
    /\ UNCHANGED <<fs, size, report, raised, again, fs0, attempted, okCopy,
                   okDelete, resized, prevClean, inSrc, inDst, outPlan, outDone,
                   imArgs, imResult, imDone>>

\* sync_images without @logger.catch(): the exception reaches the caller
RaiseEscapes ==
    /\ pc' = "crashed"
    /\ raised' = TRUE
    /\ UNCHANGED <<actions, copied, deleted, report, okCopy, okDelete, resized>>

\* an exception leaves the for loop and is caught by logger.catch of
\* sync_images, which returns None
Raise ==
    /\ pc' = "done"
    /\ raised' = TRUE
    /\ UNCHANGED <<actions, copied, deleted, report, okCopy, okDelete, resized>>

\* resize_image going on to save after Image.open failed to identify the file
ResizeImageSavesAnyway(bytes) ==
    IF bytes = "img" THEN {"norm", "img", "broken"} ELSE {"broken"}

\* resize_image(path, size, square): the bytes it can leave at path.
\* UnidentifiedImageError returns before any write; any other exception is
\* swallowed by logger.catch of resize_image, before the save or during it.
ResizeImage(bytes) ==
    IF bytes = "img" THEN {"norm", "img", "broken"} ELSE {bytes}

\* the COPY branch with a resize_image that lets its exceptions through
ExecCopyResizeFatal ==
    /\ pc = "loop" /\ actions # <<>>
    /\ Head(actions).kind = "COPY"
    /\ LET src == Head(actions).paths[1]
           dst == Head(actions).paths[2]
       IN  /\ attempted' = attempted + 1
           /\ \/ /\ fs' = fs
                 /\ Raise
              \/ /\ fs' \in {fs, [fs EXCEPT ![dst] = "partial"]}
                 /\ Raise
              \/ /\ fs[src] # NoFile
                 /\ size # None
                 /\ fs' \in {[fs EXCEPT ![dst] = fs[src]], [fs EXCEPT ![dst] = "broken"]}
                 /\ resized' = resized \cup {dst}
                 /\ okCopy' = okCopy \cup {dst}
                 /\ pc' = "done"
                 /\ raised' = TRUE
                 /\ UNCHANGED <<actions, copied, deleted, report, okDelete>>
              \/ /\ fs[src] # NoFile
                 /\ IF size # None
                    THEN /\ fs' = [fs EXCEPT ![dst] = "norm"]
                         /\ resized' = resized \cup {dst}
                    ELSE /\ fs' = [fs EXCEPT ![dst] = fs[src]]
                         /\ resized' = resized
                 /\ copied' = copied + 1
                 /\ okCopy' = okCopy \cup {dst}
                 /\ actions' = Tail(actions)
                 /\ UNCHANGED <<pc, raised, deleted, report, okDelete>>
    /\ UNCHANGED <<size, source_files, dest_files, again, fs0, scanErr, plan,
                   prevClean, inSrc, inDst, outPlan, outDone, imArgs, imResult,
                   imDone>>

\* one iteration of the loop on a COPY action
ExecCopy ==
    /\ pc = "loop" /\ actions # <<>>
    /\ Head(actions).kind = "COPY"
    /\ LET src == Head(actions).paths[1]
           dst == Head(actions).paths[2]
       IN  /\ attempted' = attempted + 1
           /\ \/ \* os.makedirs raises
                 /\ fs' = fs
                 /\ Raise
              \/ \* shutil.copyfile raises, before or after opening dst
                 /\ fs' \in {fs, [fs EXCEPT ![dst] = "partial"]}
                 /\ Raise
              \/ \* shutil.copyfile returns
                 /\ fs[src] # NoFile
                 /\ IF size # None
                    THEN /\ \E out \in ResizeImage(fs[src]) :
                                fs' = [fs EXCEPT ![dst] = out]
                         /\ resized' = resized \cup {dst}
                    ELSE /\ fs' = [fs EXCEPT ![dst] = fs[src]]
                         /\ resized' = resized
                 /\ copied' = copied + 1
                 /\ okCopy' = okCopy \cup {dst}
                 /\ actions' = Tail(actions)
                 /\ UNCHANGED <<pc, raised, deleted, report, okDelete>>
    /\ UNCHANGED <<size, source_files, dest_files, again, fs0, scanErr, plan,
                   prevClean, inSrc, inDst, outPlan, outDone, imArgs, imResult, imDone>>

\* one iteration of the loop on a DELETE action
ExecDelete ==
    /\ pc = "loop" /\ actions # <<>>
    /\ Head(actions).kind = "DELETE"
    /\ LET dst == Head(actions).paths[1]
       IN  /\ attempted' = attempted + 1
           /\ \/ \* os.remove raises (file missing, permission)
                 /\ fs' = fs
                 /\ Raise
              \/ \* os.remove returns
                 /\ fs[dst] # NoFile
                 /\ fs' = [fs EXCEPT ![dst] = NoFile]
                 /\ deleted' = deleted + 1
                 /\ okDelete' = okDelete \cup {dst}
                 /\ actions' = Tail(actions)
                 /\ UNCHANGED <<pc, raised, copied, report, okCopy, resized>>
    /\ UNCHANGED <<size, source_files, dest_files, again, fs0, scanErr, plan,
                   prevClean, inSrc, inDst, outPlan, outDone, imArgs, imResult, imDone>>

\* the generator is exhausted: the totals are logged and sync_images returns
Finish ==
    /\ pc = "loop" /\ actions = <<>>
    /\ report' = <<copied, deleted>>
    /\ pc' = "done"
    /\ UNCHANGED <<fs, size, source_files, dest_files, actions, copied, deleted,
                   raised, again, fs0, scanErr, plan, attempted, okCopy,
                   okDelete, resized, prevClean, inSrc, inDst, outPlan, outDone,
                   imArgs, imResult, imDone>>

Next == Plan \/ ExecCopy \/ ExecDelete \/ Finish

Spec == Init /\ [][Next]_vars

\* the program is sequential: a step that can be taken is taken
FairSpec == Spec /\ WF_vars(Next)

\* ------------------------------------------------- two successive runs
\* the program is started a second time on the same roots, with the trees
\* as the first run left them
Rerun ==
    /\ pc = "done" /\ ~ again
    /\ again' = TRUE
    /\ prevClean' = (report # None /\ scanErr = {})
    /\ pc' = "start"
    /\ source_files' = {} /\ dest_files' = {} /\ actions' = <<>>
    /\ copied' = 0 /\ deleted' = 0
    /\ report' = None /\ raised' = FALSE
    /\ fs0' = fs /\ scanErr' = {} /\ plan' = <<>> /\ attempted' = 0
    /\ okCopy' = {} /\ okDelete' = {} /\ resized' = {}
    /\ UNCHANGED <<fs, size, inSrc, inDst, outPlan, outDone, imArgs, imResult, imDone>>

NextTwice == Next \/ Rerun

SpecTwice == Init /\ [][NextTwice]_vars

\* ------------------------------------------- determine_actions taken alone
Seqs(S, n) == UNION {[1 .. k -> S] : k \in 0 .. n}

InitPlan ==
    /\ inSrc \in Seqs(RelPaths, MaxLen)
    /\ inDst \in Seqs(RelPaths, MaxLen)
    /\ outPlan = <<>> /\ outDone = FALSE
    /\ NoImage
    /\ fs = [ap \in AbsPaths |-> NoFile]
    /\ size = None
    /\ Idle

Determine ==
    /\ ~ outDone
    /\ \E acts \in DetermineActions(inSrc, inDst, source, dest) : outPlan' = acts
    /\ outDone' = TRUE
    /\ UNCHANGED <<fs, size, pc, source_files, dest_files, actions, copied,
                   deleted, report, raised, again, fs0, scanErr, plan, attempted,
                   okCopy, okDelete, resized, prevClean, inSrc, inDst,
                   imArgs, imResult, imDone>>

NextPlan == Determine

SpecPlan == InitPlan /\ [][NextPlan]_vars

\* ------------------------------------------------ resize_image taken alone
InitResize ==
    /\ imArgs \in {[format |-> o[1], mode |-> o[2], w |-> w, h |-> h,
                     suffix |-> sfx, size |-> <<W, H>>, square |-> sq] :
                       o \in Originals, w \in 1 .. MaxDim, h \in 1 .. MaxDim,
                       sfx \in Suffixes, W \in 1 .. MaxDim, H \in 1 .. MaxDim,
                       sq \in BOOLEAN}
    /\ imResult = NoResult /\ imDone = FALSE
    /\ inSrc = <<>> /\ inDst = <<>> /\ outPlan = <<>> /\ outDone = FALSE
    /\ fs = [ap \in AbsPaths |-> NoFile]
    /\ size = None
    /\ Idle

Resize ==
    /\ ~ imDone
    /\ imResult' = Normalize(imArgs)
    /\ imDone' = TRUE
    /\ UNCHANGED <<fs, size, pc, source_files, dest_files, actions, copied,
                   deleted, report, raised, again, fs0, scanErr, plan, attempted,
                   okCopy, okDelete, resized, prevClean, inSrc, inDst, outPlan,
                   outDone, imArgs>>

NextResize == Resize

SpecResize == InitResize /\ [][NextResize]_vars

\* ================================================================ claims
Finished == pc = "done" /\ report # None
Notes == <<0, NotesName>>

\* C1: after a full run (no scandir error, every planned action executed and
\* the totals reported) the eligible paths under destination are exactly the
\* eligible paths that were under source when the run started.
C1_FullRunMirrors ==
    (Finished /\ scanErr = {}) => EligibleIn(fs, dest) = EligibleIn(fs0, source)

C1_Witness ==
    /\ Finished /\ scanErr = {}
    /\ okCopy # {} /\ okDelete # {}
    /\ attempted = Len(plan)

C3_FailureIsConfined ==
    pc = "done" => attempted = Len(plan)

\* C4: when the source root cannot be opened, nothing is planned and no
\* file under destination is copied or deleted.
C4_MissingSourceIsFatal ==
    <<source, 0>> \in scanErr =>
        /\ plan = <<>>
        /\ \A rel \in RelPaths : fs[Join(dest, rel)] = fs0[Join(dest, rel)]

\* C5: a DELETE is executed only on destination files that have no eligible
\* source counterpart, also when a source directory could not be scanned.
C5_DeleteOnlyOrphans ==
    \A dst \in okDelete : ~ Exists(fs0, source, dst[2])

Occurs(rel, seq) == \E i \in DOMAIN seq : seq[i] = rel
Count(a, seq) == Cardinality({i \in DOMAIN seq : seq[i] = a})
C7_PlanIsSetDifference ==
    outDone =>
        /\ \A rel \in RelPaths :
              /\ Count([kind |-> "COPY", paths |-> <<<<source, rel>>, <<dest, rel>>>>], outPlan)
                   = IF Occurs(rel, inSrc) /\ ~ Occurs(rel, inDst) THEN 1 ELSE 0
              /\ Count([kind |-> "DELETE", paths |-> <<<<dest, rel>>>>], outPlan)
                   = IF Occurs(rel, inDst) /\ ~ Occurs(rel, inSrc) THEN 1 ELSE 0
        /\ \A i \in DOMAIN outPlan :
              \E rel \in RelPaths :
                 \/ outPlan[i] = [kind |-> "COPY", paths |-> <<<<source, rel>>, <<dest, rel>>>>]
                 \/ outPlan[i] = [kind |-> "DELETE", paths |-> <<<<dest, rel>>>>]

C7_Witness ==
    /\ outDone
    /\ Len(inSrc) > Cardinality(Range(inSrc))
    /\ Len(inDst) > Cardinality(Range(inDst))
    /\ \E i, j \in DOMAIN outPlan : outPlan[i].kind = "COPY" /\ outPlan[j].kind = "DELETE"

\* C8: a path that is eligible and present under both roots when the run
\* starts keeps its destination file as it was: not copied over, not
\* normalized, not deleted.
C8_CommonPathsUntouched ==
    \A rel \in EligibleIn(fs0, source) \cap EligibleIn(fs0, dest) :
        /\ fs[Join(dest, rel)] = fs0[Join(dest, rel)]
        /\ Join(dest, rel) \notin resized

\* C9: a path that matches no pattern is in no action, and its destination
\* file is never deleted or modified.
C9_PatternExclusion ==
    \A rel \in RelPaths :
        ~ Eligible(rel) =>
            /\ fs[Join(dest, rel)] = fs0[Join(dest, rel)]
            /\ \A i \in DOMAIN plan : \A k \in DOMAIN plan[i].paths :
                   plan[i].paths[k][2] # rel

C9_Witness ==
    /\ Finished
    /\ okCopy # {} /\ okDelete # {}
    /\ Exists(fs, source, Notes) /\ ~ Exists(fs, dest, Notes)

\* C10: every run that ends has reported its totals, the number of COPY
\* actions that succeeded and the number of DELETE actions that succeeded.
C10_TotalsAlwaysReported ==
    pc = "done" => report = <<Cardinality(okCopy), Cardinality(okDelete)>>

\* C11: whatever scan, copy, delete, decode or encode step fails, the call of
\* sync_images returns to its caller (no exception propagates, so __main__
\* runs to its end and the process exits with status zero).
C11_AlwaysReturns ==
    <>(pc = "done")

C11_Witness ==
    /\ pc = "done" /\ raised
    /\ scanErr # {}
    /\ \E ap \in AbsPaths : ap[1] = dest /\ fs[ap] = "broken"

\* C12: with a size target, a copied file that Image.open cannot identify is
\* handed to resize_image and keeps the bytes of its source file, and the
\* loop goes on with the next action.
C12_UndecodableLeftAsCopied ==
    size # None =>
        \A dst \in okCopy :
            fs[Join(source, dst[2])] = "junk" =>
                /\ dst \in resized
                /\ fs[dst] = fs[Join(source, dst[2])]
                /\ (raised => attempted > Cardinality(okCopy) + Cardinality(okDelete))

C12_Witness ==
    /\ Finished /\ size # None
    /\ Len(plan) >= 2 /\ attempted = Len(plan)
    /\ plan[1].kind = "COPY"
    /\ plan[1].paths[2] \in okCopy
    /\ fs[plan[1].paths[1]] = "junk"
    /\ fs[plan[1].paths[2]] = "junk"

C14_ResizeBound ==
    imDone =>
        /\ imResult.w <= imArgs.size[1] /\ imResult.h <= imArgs.size[2]
        /\ ~ imArgs.square =>
              /\ imResult.w <= imArgs.w /\ imResult.h <= imArgs.h
              /\ (imArgs.w <= imArgs.size[1] /\ imArgs.h <= imArgs.size[2]) =>
                    (imResult.w = imArgs.w /\ imResult.h = imArgs.h)
        /\ imArgs.square => <<imResult.w, imResult.h>> = imArgs.size

C14_Witness ==
    /\ imDone /\ ~ imArgs.square
    /\ imArgs.w = 5 /\ imArgs.h = 2 /\ imArgs.size = <<4, 4>>
    /\ imResult.w = 4 /\ imResult.h = 2

\* C15: a directory whose scandir raises loses the files below it and no
\* others: each path set holds every eligible file of the tree outside the
\* directories that failed, and the run goes on to plan and execute.
Below(root, rel) == {<<root, 0>>, <<root, rel[1]>>}
C15_ScanErrorLosesOneSubtree ==
    pc # "start" =>
        /\ source_files =
             {rel \in EligibleIn(fs0, source) : Below(source, rel) \cap scanErr = {}}
        /\ dest_files =
             {rel \in EligibleIn(fs0, dest) : Below(dest, rel) \cap scanErr = {}}

C15_Witness ==
    /\ Finished
    /\ <<source, 1>> \in scanErr
    /\ source_files # {}
    /\ okCopy # {}

\* C16 as stated: in square and in non-square mode alike, alpha-flatten is
\* taken exactly when the suffix is .jpg/.jpeg and the decoded original had an
\* alpha channel, animation-flatten exactly when the suffix is .jpg/.jpeg and
\* the original was a GIF, passthrough otherwise.
HasAlpha(mode) == mode \in {"RGBA", "LA"}
JpegSuffix(suffix) == suffix \in {".jpg", ".jpeg", ".JPG"}
C17_ResizeOnlyAfterCopy ==
    /\ resized # {} => size # None
    /\ resized \subseteq okCopy
    /\ \A i \in DOMAIN plan : plan[i].kind = "DELETE" => plan[i].paths[1] \notin resized
    /\ \A rel \in EligibleIn(fs0, source) \cap EligibleIn(fs0, dest) :
          Join(dest, rel) \notin resized

\* C18: the two path sets are those of the trees as they were before the
\* first action, the plan is made of them alone, and the actions still to
\* execute are always the rest of that plan: executed actions add, drop and
\* change nothing.
Done == Cardinality(okCopy) + Cardinality(okDelete)
C18_PlanFromSnapshot ==
    pc # "start" =>
        /\ source_files \subseteq EligibleIn(fs0, source)
        /\ dest_files \subseteq EligibleIn(fs0, dest)
        /\ Range(plan) =
             {[kind |-> "COPY", paths |-> <<<<source, rel>>, <<dest, rel>>>>] :
                 rel \in source_files \ dest_files}
             \cup {[kind |-> "DELETE", paths |-> <<<<dest, rel>>>>] :
                 rel \in dest_files \ source_files}
        /\ Len(plan) >= Done
        /\ actions = SubSeq(plan, Done + 1, Len(plan))

C18_Witness ==
    /\ pc = "loop"
    /\ Len(plan) = 2 /\ Done = 1
    /\ plan[2].kind = "DELETE"
    /\ fs # fs0

\* C19: in the plan every COPY comes before every DELETE, and a file is
\* deleted only after every planned copy has completed.
C19_CopiesBeforeDeletes ==
    /\ \A i, j \in DOMAIN plan :
          (plan[i].kind = "DELETE" /\ plan[j].kind = "COPY") => j < i
    /\ okDelete # {} =>
          \A i \in DOMAIN plan : plan[i].kind = "COPY" => plan[i].paths[2] \in okCopy

C19_Witness ==
    /\ Len(plan) = 2
    /\ plan[1].kind = "COPY" /\ plan[2].kind = "DELETE"
    /\ Cardinality(okCopy) = 1 /\ Cardinality(okDelete) = 1

\* C20: copied counts exactly the COPY actions whose makedirs and copyfile
\* succeeded, whatever resize_image did afterwards, and such an action never
\* ends the run: only the action that raised is missing from the counters.
C20_ResizeNeverAffectsCount ==
    /\ copied = Cardinality(okCopy)
    /\ attempted = Done + (IF raised THEN 1 ELSE 0)

C20_Witness ==
    /\ Finished
    /\ copied = 2
    /\ \E ap \in okCopy : fs[ap] = "broken"
    /\ \E ap \in okCopy : fs[ap] = "junk"
====
